---- MODULE Spec2Model ----
(***************************************************************************)
(* A model of the box-pair pipeline of pocket:                             *)
(*   - InteractionHead.pair_up_boxes_and_assign_to_targets and its helpers *)
(*     (src/pocket/models/interact_rcnn.py), one image at a time;          *)
(*   - InteractionHead.subsample on an arbitrary binary label matrix;      *)
(*   - masked_roi_align (src/pocket/ops/masked_roi_align.py), one loop     *)
(*     iteration at a time.                                                *)
(* Tensors are sequences; the code's zero-based indices are kept as values *)
(* and At(s, i) reads position i of a tensor.                              *)
(***************************************************************************)
EXTENDS Integers, Sequences, FiniteSets, TLC

VARIABLES
    pc,             \* position in the operation being modelled
    training,       \* nn.Module.training
    boxes,          \* boxes_in_image   (Tensor[N, 4])
    labels,         \* labels_in_image  (Tensor[N])
    scores,         \* scores_in_images (Tensor[N]), in tenths
    targets,        \* targets_in_image: boxes_h, boxes_o, hoi, object
    paired_idx,     \* Tensor[M, 2] of (h, o) indices
    boxes_h,        \* optional Tensor[M, 4]
    boxes_o,        \* optional Tensor[M, 4]
    hoi_labels,     \* optional Tensor[M, K] of 0/1
    prior_scores,   \* Tensor[M, K], in hundredths
    num_box_pairs_per_image,
    positive_fraction,   \* <<numerator, denominator>>
    sampled_idx,    \* result of subsample
    \* masked_roi_align and its caller
    caller_boxes,   \* the caller's boxes: the image index of each box, in order
    boxes_form,     \* "list" (list[Tensor[M, 4]]) or "tensor" (Tensor[K, 5])
    reserve,        \* reserve argument (MB) of the running call
    roi_boxes,      \* column 0 of the local boxes tensor
    entry_boxes,    \* column 0 of boxes as the running call received it
    clone_limit,
    num_iter,
    idx,            \* loop counter
    per_instance_features,  \* the live feature-map clones
    output,         \* list of pooled chunks
    result,         \* the returned tensor
    first_call,     \* what the caller keeps of its first call
    \* InteractionHead.forward at inference, over a batch
    detections,     \* list of per-image detections: boxes, labels, scores
    all_boxes_h,    \* list[Tensor[M, 4]], one per image
    all_boxes_o,    \* list[Tensor[M, 4]]
    all_prior_scores,   \* list[Tensor[M, K]], in hundredths
    interaction_scores, \* list[Tensor[M, K]] of rationals, split by image
    img,            \* position of the loop of postprocess
    dense,          \* scores_ of sinkhorn_knopp_normalisation, by class
    normalised,     \* scores_ after every class is normalised
    results,        \* optional list of per-image results
    \* sinkhorn_knopp_norm2d
    matrix,         \* the argument
    scaled,         \* the matrix as the iteration rescales it
    n_iter          \* iterations completed

headVars == <<training, boxes, labels, scores, targets, paired_idx, boxes_h,
              boxes_o, hoi_labels, prior_scores>>
sampleVars == <<num_box_pairs_per_image, positive_fraction, sampled_idx>>
poolVars == <<caller_boxes, boxes_form, reserve, roi_boxes, entry_boxes, clone_limit,
              num_iter, idx, per_instance_features, output, result, first_call>>
postVars == <<detections, all_boxes_h, all_boxes_o, all_prior_scores, interaction_scores,
              img, dense, normalised, results, matrix, scaled, n_iter>>
vars == <<pc, headVars, sampleVars, poolVars, postVars>>

\* an optional tensor: None, or a tensor t
None == [none |-> TRUE, t |-> <<>>]
Tensor(t) == [none |-> FALSE, t |-> t]

(***************************************************************************)
(* Bounds of the model.                                                    *)
(***************************************************************************)
MaxDet == 3     \* detections per image
MaxGt == 2      \* ground-truth pairs per image

(***************************************************************************)
(* Configuration of the head (constructor arguments).                      *)
(***************************************************************************)
human_idx == 1
num_classes == 3
\* object class 0 (cup) -> {0}; 1 (human) -> {1}; 2 (chair) -> {0, 2};
\* 3 (an object no interaction involves) -> {}
object_class_to_target_class == << <<0>>, <<1>>, <<0, 2>>, <<>> >>

(***************************************************************************)
(* Tensor helpers.                                                         *)
(***************************************************************************)
At(s, i) == s[i + 1]

Range(s) == {s[i] : i \in 1..Len(s)}

\* torch.arange(n)
Arange(n) == [i \in 1..n |-> i - 1]

\* torch.nonzero(mask).squeeze(1): the indices where mask holds, ascending
RECURSIVE NonZeroUpTo(_, _)
NonZeroUpTo(mask, n) ==
    IF n = 0 THEN <<>>
    ELSE IF mask[n] THEN Append(NonZeroUpTo(mask, n - 1), n - 1)
         ELSE NonZeroUpTo(mask, n - 1)

NonZero(mask) == NonZeroUpTo(mask, Len(mask))

\* every index taken one too far, wrapping at the end
GatherNext(t, index) == [k \in 1..Len(index) |-> At(t, (index[k] + 1) % Len(t))]

\* t[index] for an index tensor
Gather(t, index) == [k \in 1..Len(index) |-> At(t, index[k])]

\* all sequences over S of length at most n
SeqsUpTo(S, n) == UNION {[1..k -> S] : k \in 0..n}

(***************************************************************************)
(* Pair construction, lines 253-262.                                       *)
(***************************************************************************)
\* the grids of meshgrid taken in the other order (column-major enumeration)
MeshgridPairsColumnMajor(a, b) ==
    [k \in 1..(Len(a) * Len(b)) |->
        <<a[((k - 1) % Len(a)) + 1], b[((k - 1) \div Len(a)) + 1]>>]

\* torch.meshgrid(a, b), each grid flattened, the two concatenated
\* column-wise: row k is (a[k div |b|], b[k mod |b|])
MeshgridPairs(a, b) ==
    [k \in 1..(Len(a) * Len(b)) |->
        <<a[((k - 1) \div Len(b)) + 1], b[((k - 1) % Len(b)) + 1]>>]

PairUpBoxes(lbls) ==
    LET h_idx == NonZero([i \in 1..Len(lbls) |-> lbls[i] = human_idx])
        grid == MeshgridPairs(h_idx, Arange(Len(lbls)))
        keep_idx == NonZero([k \in 1..Len(grid) |-> grid[k][1] # grid[k][2]])
    IN  Gather(grid, keep_idx)

(***************************************************************************)
(* append_ground_truth_box_pairs, lines 144-192.                           *)
(***************************************************************************)
\* arange(2 * num_gt).view(-1, 2): row i is (2i, 2i + 1)
GroundTruthPairsInterleaved(num_gt) == [i \in 1..num_gt |-> <<2 * (i - 1), 2 * (i - 1) + 1>>]

\* arange(2 * num_gt).view(2, -1).transpose(0, 1): row i is (i, num_gt + i)
GroundTruthPairs(num_gt) == [i \in 1..num_gt |-> <<i - 1, num_gt + i - 1>>]

\* the ground-truth object boxes concatenated ahead of the human boxes
AppendGroundTruthObjectsFirst(p_idx, bx, lbls, scs, tgt) ==
    LET num_gt == Len(tgt.boxes_h)
    IN  [paired_idx |-> GroundTruthPairs(num_gt) \o p_idx,
         boxes |-> tgt.boxes_o \o tgt.boxes_h \o bx,
         labels |-> [i \in 1..num_gt |-> human_idx] \o tgt.object \o lbls,
         scores |-> [i \in 1..(2 * num_gt) |-> 10] \o scs]

AppendGroundTruthBoxPairs(p_idx, bx, lbls, scs, tgt) ==
    LET num_gt == Len(tgt.boxes_h)
    IN  [paired_idx |-> GroundTruthPairs(num_gt) \o p_idx,
         boxes |-> tgt.boxes_h \o tgt.boxes_o \o bx,
         labels |-> [i \in 1..num_gt |-> human_idx] \o tgt.object \o lbls,
         scores |-> [i \in 1..(2 * num_gt) |-> 10] \o scs]

(***************************************************************************)
(* Label assignment, lines 279-291.                                        *)
(***************************************************************************)
fg_iou_thresh == <<1, 2>>

Min(a, b) == IF a < b THEN a ELSE b
Max(a, b) == IF a > b THEN a ELSE b

\* torchvision box_area and the intersection of box_iou (clamped at 0)
BoxArea(b) == (b[3] - b[1]) * (b[4] - b[2])

BoxInter(a, b) ==
    Max(0, Min(a[3], b[3]) - Max(a[1], b[1]))
        * Max(0, Min(a[4], b[4]) - Max(a[2], b[2]))

\* box_iou(a, b) >= num/den; 0/0 is NaN, which compares false
IoUAtLeast(a, b, t) ==
    LET inter == BoxInter(a, b)
        union == BoxArea(a) + BoxArea(b) - inter
    IN  union # 0 /\ inter * t[2] >= t[1] * union

\* the match decided on the human boxes alone
FgMatchHumanOnly(bh, bo, tgt, p, g) ==
    IoUAtLeast(bh[p], tgt.boxes_h[g], fg_iou_thresh)

\* min(iou_h, iou_o) >= fg_iou_thresh for candidate p and ground truth g
FgMatch(bh, bo, tgt, p, g) ==
    /\ IoUAtLeast(bh[p], tgt.boxes_h[g], fg_iou_thresh)
    /\ IoUAtLeast(bo[p], tgt.boxes_o[g], fg_iou_thresh)

AssignHoiLabels(bh, bo, tgt) ==
    [p \in 1..Len(bh) |->
        [c \in 0..(num_classes - 1) |->
            IF \E g \in 1..Len(tgt.hoi) : FgMatch(bh, bo, tgt, p, g) /\ tgt.hoi[g] = c
            THEN 1 ELSE 0]]

(***************************************************************************)
(* subsample, lines 194-222.  torch.randperm makes the result a            *)
(* nondeterministic choice: SubsampleResults is the set of its outcomes.   *)
(***************************************************************************)
RowSum(row) == Cardinality({c \in DOMAIN row : row[c] = 1})

\* k entries of index drawn with replacement
RandomTakeWithReplacement(index, k) ==
    LET m == Min(k, Len(index))
    IN  [1..m -> Range(index)]

\* index[torch.randperm(len(index))[:k]]: any k distinct entries of index, in
\* any order; all of them, permuted, when k exceeds its length
RandomTake(index, k) ==
    LET m == Min(k, Len(index))
    IN  {s \in [1..m -> Range(index)] : \A i, j \in 1..m : i # j => s[i] # s[j]}

\* round(n * f), halves to the even neighbour
IntOfProductRounded(n, f) ==
    LET q == (n * f[1]) \div f[2]
        r == (n * f[1]) % f[2]
    IN  IF 2 * r < f[2] THEN q
        ELSE IF 2 * r > f[2] THEN q + 1
        ELSE IF q % 2 = 0 THEN q ELSE q + 1

\* int(n * f) for f = num/den
IntOfProduct(n, f) == (n * f[1]) \div f[2]

\* int(p * (1 - f)): the division by the fraction left out
NumNegWithoutRatio(p, f) == (p * (f[2] - f[1])) \div f[2]

\* int(p * (1 - f) / f)
NumNegToKeepRatio(p, f) == (p * (f[2] - f[1])) \div f[1]

SubsampleResults(lbl, n, f) ==
    LET is_positive == [i \in 1..Len(lbl) |-> RowSum(lbl[i])]
        pos_idx == NonZero([i \in 1..Len(lbl) |-> is_positive[i] # 0])
        neg_idx == NonZero([i \in 1..Len(lbl) |-> is_positive[i] = 0])
    IN  IF Len(pos_idx) * f[2] < n * f[1]
        THEN {pos_idx \o s : s \in RandomTake(neg_idx, NumNegToKeepRatio(Len(pos_idx), f))}
        ELSE LET num_pos_to_sample == IntOfProduct(n, f)
                 num_neg_to_sample == n - num_pos_to_sample
             IN  {sp \o sn : sp \in RandomTake(pos_idx, num_pos_to_sample),
                             sn \in RandomTake(neg_idx, num_neg_to_sample)}

(***************************************************************************)
(* map_object_scores_to_interaction_scores, lines 114-142.                 *)
(***************************************************************************)
RECURSIVE Flatten(_)
Flatten(ss) == IF ss = <<>> THEN <<>> ELSE Head(ss) \o Flatten(Tail(ss))

\* the same with the object's score alone in place of the product
MapObjectScoresIgnoringHuman(scs, lbls, p_idx) ==
    LET M == Len(p_idx)
        prod == [i \in 1..M |-> At(scs, p_idx[i][2]) * At(scs, p_idx[i][2])]
        hoi_idx == [i \in 1..M |-> At(object_class_to_target_class, At(lbls, p_idx[i][2]))]
    IN  [i \in 1..M |->
            [c \in 0..(num_classes - 1) |->
                IF c \in Range(hoi_idx[i]) THEN prod[i] ELSE 0]]

MapObjectScoresToInteractionScores(scs, lbls, p_idx) ==
    LET M == Len(p_idx)
        prod == [i \in 1..M |-> At(scs, p_idx[i][1]) * At(scs, p_idx[i][2])]
        obj_cls == [i \in 1..M |-> At(lbls, p_idx[i][2])]
        hoi_idx == [i \in 1..M |-> At(object_class_to_target_class, obj_cls[i])]
        \* the pair index repeated once per mapped class, and the classes
        pair_idx == Flatten([i \in 1..M |-> [j \in 1..Len(hoi_idx[i]) |-> i]])
        flat_hoi_idx == Flatten(hoi_idx)
    IN  [i \in 1..M |->
            [c \in 0..(num_classes - 1) |->
                IF \E k \in 1..Len(pair_idx) : pair_idx[k] = i /\ flat_hoi_idx[k] = c
                THEN prod[i] ELSE 0]]

\* no call of masked_roi_align is in progress or was made
NoCall == [made |-> FALSE, entry |-> <<>>, result |-> <<>>, clone_limit |-> 0]

\* forward and sinkhorn_knopp_norm2d are not running
NoPostprocessing ==
    /\ detections = <<>>
    /\ all_boxes_h = <<>>
    /\ all_boxes_o = <<>>
    /\ all_prior_scores = <<>>
    /\ interaction_scores = <<>>
    /\ img = 0
    /\ dense = <<>>
    /\ normalised = <<>>
    /\ results = None
    /\ matrix = <<>>
    /\ scaled = <<>>
    /\ n_iter = 0

NoPooling ==
    /\ caller_boxes = <<>>
    /\ boxes_form = "list"
    /\ reserve = 0
    /\ roi_boxes = <<>>
    /\ entry_boxes = <<>>
    /\ clone_limit = 0
    /\ num_iter = 0
    /\ idx = 0
    /\ per_instance_features = <<>>
    /\ output = <<>>
    /\ result = <<>>
    /\ first_call = NoCall

(***************************************************************************)
(* One image through pair_up_boxes_and_assign_to_targets, lines 250-311.   *)
(***************************************************************************)
\* boxes (x1, y1, x2, y2) the detector and the annotations can produce
BoxA == <<0, 0, 4, 4>>
BoxA2 == <<0, 0, 4, 2>>
BoxB == <<2, 0, 6, 4>>
BoxC == <<10, 10, 14, 14>>
BoxD == <<10, 10, 14, 13>>

\* a detection: box, label, score (tenths)
Detections ==
    { [box |-> BoxA2, label |-> 1, score |-> 9],
      [box |-> BoxB, label |-> 1, score |-> 8],
      [box |-> BoxC, label |-> 0, score |-> 8],
      [box |-> BoxD, label |-> 2, score |-> 7],
      [box |-> BoxC, label |-> 3, score |-> 5] }

\* an annotated pair: human box, object box, interaction class, object class
Annotations ==
    { [box_h |-> BoxA, box_o |-> BoxC, hoi |-> 0, object |-> 0],
      [box_h |-> BoxA, box_o |-> BoxD, hoi |-> 2, object |-> 2],
      [box_h |-> BoxB, box_o |-> BoxA, hoi |-> 1, object |-> 1] }

TargetsOf(gt) ==
    [boxes_h |-> [g \in 1..Len(gt) |-> gt[g].box_h],
     boxes_o |-> [g \in 1..Len(gt) |-> gt[g].box_o],
     hoi |-> [g \in 1..Len(gt) |-> gt[g].hoi],
     object |-> [g \in 1..Len(gt) |-> gt[g].object]]

InitHead ==
    /\ pc = "pair_up"
    /\ training \in BOOLEAN
    /\ \E det \in SeqsUpTo(Detections, MaxDet) :
        /\ boxes = [i \in 1..Len(det) |-> det[i].box]
        /\ labels = [i \in 1..Len(det) |-> det[i].label]
        /\ scores = [i \in 1..Len(det) |-> det[i].score]
    /\ IF training
       THEN \E gt \in SeqsUpTo(Annotations, MaxGt) : targets = TargetsOf(gt)
       ELSE targets = None
    /\ paired_idx = <<>>
    /\ boxes_h = None
    /\ boxes_o = None
    /\ hoi_labels = None
    /\ prior_scores = <<>>
    /\ num_box_pairs_per_image = 2
    /\ positive_fraction = <<1, 2>>
    /\ sampled_idx = <<>>
    /\ NoPooling
    /\ NoPostprocessing

\* lines 253-265
PairUp ==
    /\ pc = "pair_up"
    /\ paired_idx' = PairUpBoxes(labels)
    /\ pc' = IF training THEN "append_gt" ELSE "map_scores"
    /\ boxes_h' = None
    /\ boxes_o' = None
    /\ hoi_labels' = None
    /\ UNCHANGED <<training, boxes, labels, scores, targets, prior_scores, sampleVars,
                   poolVars, postVars>>

\* lines 269-277
AppendGroundTruth ==
    /\ pc = "append_gt"
    /\ LET r == AppendGroundTruthBoxPairs(paired_idx, boxes, labels, scores, targets)
       IN  /\ paired_idx' = r.paired_idx
           /\ boxes' = r.boxes
           /\ labels' = r.labels
           /\ scores' = r.scores
    /\ pc' = "assign"
    /\ UNCHANGED <<training, targets, boxes_h, boxes_o, hoi_labels, prior_scores,
                   sampleVars, poolVars, postVars>>

\* lines 279-291
AssignLabels ==
    /\ pc = "assign"
    /\ boxes_h' = Tensor(Gather(boxes, [p \in 1..Len(paired_idx) |-> paired_idx[p][1]]))
    /\ boxes_o' = Tensor(Gather(boxes, [p \in 1..Len(paired_idx) |-> paired_idx[p][2]]))
    /\ hoi_labels' = Tensor(AssignHoiLabels(boxes_h'.t, boxes_o'.t, targets))
    /\ pc' = "subsample"
    /\ UNCHANGED <<training, boxes, labels, scores, targets, paired_idx,
                   prior_scores, sampleVars, poolVars, postVars>>

\* lines 293-299
Subsample ==
    /\ pc = "subsample"
    /\ \E s \in SubsampleResults(hoi_labels.t, num_box_pairs_per_image, positive_fraction) :
        /\ sampled_idx' = s
        /\ paired_idx' = Gather(paired_idx, s)
        /\ boxes_h' = Tensor(Gather(boxes_h.t, s))
        /\ boxes_o' = Tensor(Gather(boxes_o.t, s))
        /\ hoi_labels' = Tensor(Gather(hoi_labels.t, s))
    /\ pc' = "map_scores"
    /\ UNCHANGED <<training, boxes, labels, scores, targets, prior_scores,
                   num_box_pairs_per_image, positive_fraction, poolVars, postVars>>

\* lines 301-311
MapScores ==
    /\ pc = "map_scores"
    /\ IF boxes_h = None \/ boxes_o = None
       THEN /\ boxes_h' = Tensor(Gather(boxes, [p \in 1..Len(paired_idx) |-> paired_idx[p][1]]))
            /\ boxes_o' = Tensor(Gather(boxes, [p \in 1..Len(paired_idx) |-> paired_idx[p][2]]))
       ELSE UNCHANGED <<boxes_h, boxes_o>>
    /\ prior_scores' = MapObjectScoresToInteractionScores(scores, labels, paired_idx)
    /\ pc' = "done"
    /\ UNCHANGED <<training, boxes, labels, scores, targets, paired_idx,
                   hoi_labels, sampleVars, poolVars, postVars>>

NextHead == PairUp \/ AppendGroundTruth \/ AssignLabels \/ Subsample \/ MapScores

SpecHead == InitHead /\ [][NextHead]_vars

(***************************************************************************)
(* subsample called on its own, on any binary label matrix.                *)
(***************************************************************************)
MaxRows == 5    \* rows of the label matrix

LabelRows ==
    { [c \in 0..(num_classes - 1) |-> 0],
      [c \in 0..(num_classes - 1) |-> IF c = 0 THEN 1 ELSE 0],
      [c \in 0..(num_classes - 1) |-> IF c = 1 THEN 0 ELSE 1] }

\* positive_fraction values, as <<numerator, denominator>>
Fractions == { <<1, 4>>, <<1, 2>>, <<3, 4>>, <<1, 1>> }

InitSample ==
    /\ pc = "subsample_call"
    /\ hoi_labels \in {Tensor(m) : m \in SeqsUpTo(LabelRows, MaxRows)}
    /\ num_box_pairs_per_image \in {2, 3, 4}
    /\ positive_fraction \in Fractions
    /\ sampled_idx = <<>>
    /\ training = TRUE
    /\ boxes = <<>>
    /\ labels = <<>>
    /\ scores = <<>>
    /\ targets = None
    /\ paired_idx = <<>>
    /\ boxes_h = None
    /\ boxes_o = None
    /\ prior_scores = <<>>
    /\ NoPooling
    /\ NoPostprocessing

\* lines 194-222
SubsampleCall ==
    /\ pc = "subsample_call"
    /\ sampled_idx' \in SubsampleResults(hoi_labels.t, num_box_pairs_per_image,
                                        positive_fraction)
    /\ pc' = "subsample_done"
    /\ UNCHANGED <<headVars, num_box_pairs_per_image, positive_fraction, poolVars, postVars>>

NextSample == SubsampleCall

SpecSample == InitSample /\ [][NextSample]_vars

(***************************************************************************)
(* masked_roi_align, src/pocket/ops/masked_roi_align.py lines 14-100.      *)
(* A feature map is named by its image index, a mask and a box by their    *)
(* position; a clone records the image it copies and the mask multiplied   *)
(* into it; a pooled row records the clone RoI align read and the box.     *)
(***************************************************************************)
MaxBoxes == 3       \* boxes of a call
NumImages == 2      \* features.shape[0]

\* features.shape[1:] and output_size of the calls
FeatC == 256
FeatH == 128
FeatW == 128
OutSize == 7

\* mem_limit (GB) of the calls, and the reserve (MB) values a call is given
mem_limit == 1
ReserveMB == {128, 900, 940, 955, 960, 1020}

MB == 1024 * 1024
GB == MB * 1024

\* integer tensors divide with truncation towards zero (the torch releases
\* that provide torchvision.ops.roi_align._RoIAlignFunction)
TruncDiv(a, b) == IF a >= 0 THEN a \div b ELSE -((-a) \div b)

\* Python's // and % for a non-negative left operand
PyFloorDiv(a, b) == IF b > 0 THEN a \div b ELSE -((a + (-b) - 1) \div (-b))
PyMod(a, b) == a - b * PyFloorDiv(a, b)

\* lines 65-70, bytes left for clones (output and masks at 4 bytes an element)
CloneBytes(res, num_boxes) ==
    mem_limit * GB - res * MB
        - (num_boxes * FeatC * OutSize * OutSize) * 4
        - (num_boxes * FeatC * FeatH * FeatW) * 4

\* the limit counted in elements: the division by 4 left out
CloneLimitInElements(res, num_boxes) ==
    TruncDiv(CloneBytes(res, num_boxes), FeatC * FeatH * FeatW)

\* the limit raised to one clone when the budget allows none
CloneLimitAtLeastOne(res, num_boxes) ==
    Max(1, TruncDiv(TruncDiv(CloneBytes(res, num_boxes), FeatC * FeatH * FeatW), 4))

\* lines 65-70
CloneLimit(res, num_boxes) ==
    TruncDiv(TruncDiv(CloneBytes(res, num_boxes), FeatC * FeatH * FeatW), 4)

\* the remainder chunk left out
NumIterWithoutRemainder(num_boxes, limit) == PyFloorDiv(num_boxes, limit)

\* line 71
NumIter(num_boxes, limit) ==
    PyFloorDiv(num_boxes, limit) + (IF PyMod(num_boxes, limit) # 0 THEN 1 ELSE 0)

\* lines 75-76
StartIdx == idx * clone_limit
EndIdx == Min(StartIdx + clone_limit, Len(roi_boxes))

\* the masks taken from the front of the mask tensor for every chunk
MulMasksFromZero(clones, start) ==
    [k \in 1..Len(clones) |-> [img |-> clones[k].img, mask |-> k - 1]]

\* line 85: per_instance_features.mul_(masks[start_idx: end_idx])
MulMasks(clones, start) ==
    [k \in 1..Len(clones) |-> [img |-> clones[k].img, mask |-> start + k - 1]]

\* lines 84-90: row j of the chunk is pooled from the clone its batch index
\* names, at the box's coordinates
RoIAlign(clones, batch_idx, start) ==
    [j \in 1..Len(batch_idx) |->
        [img |-> At(clones, batch_idx[j]).img,
         mask |-> At(clones, batch_idx[j]).mask,
         box |-> start + j - 1]]

Slice(t, start, end) == [k \in 1..(end - start) |-> t[start + k]]

\* boxes[start: end, 0] = values
AssignSlice(t, start, end, values) ==
    [i \in 1..Len(t) |-> IF start < i /\ i <= end THEN values[i - start] ELSE t[i]]

ErrorStates == {"ZeroDivisionError", "RuntimeError", "IndexError", "AssertionError"}

\* convert_boxes_to_roi_format numbers the boxes of a list by image
InitPool ==
    /\ pc = "call"
    /\ boxes_form \in {"list", "tensor"}
    /\ caller_boxes \in SeqsUpTo(0..(NumImages - 1), MaxBoxes)
    /\ boxes_form = "list" =>
          \A i, j \in 1..Len(caller_boxes) : i < j => caller_boxes[i] <= caller_boxes[j]
    /\ reserve \in ReserveMB
    /\ roi_boxes = <<>>
    /\ entry_boxes = <<>>
    /\ clone_limit = 0
    /\ num_iter = 0
    /\ idx = 0
    /\ per_instance_features = <<>>
    /\ output = <<>>
    /\ result = <<>>
    /\ first_call = NoCall
    /\ training = FALSE
    /\ boxes = <<>>
    /\ labels = <<>>
    /\ scores = <<>>
    /\ targets = None
    /\ paired_idx = <<>>
    /\ boxes_h = None
    /\ boxes_o = None
    /\ hoi_labels = None
    /\ prior_scores = <<>>
    /\ num_box_pairs_per_image = 2
    /\ positive_fraction = <<1, 2>>
    /\ sampled_idx = <<>>
    /\ NoPostprocessing

\* lines 48-71
Call ==
    /\ pc = "call"
    /\ roi_boxes' = caller_boxes
    /\ entry_boxes' = caller_boxes
    /\ output' = <<>>
    /\ result' = <<>>
    /\ per_instance_features' = <<>>
    /\ idx' = 0
    /\ IF Len(caller_boxes) = 0
       THEN /\ pc' = "returned"
            /\ UNCHANGED <<clone_limit, num_iter>>
       ELSE /\ clone_limit' = CloneLimit(reserve, Len(caller_boxes))
            /\ IF clone_limit' = 0
               THEN /\ pc' = "ZeroDivisionError"
                    /\ UNCHANGED num_iter
               ELSE /\ num_iter' = NumIter(Len(caller_boxes), clone_limit')
                    /\ pc' = "loop"
    /\ UNCHANGED <<caller_boxes, boxes_form, reserve, first_call, headVars, sampleVars, postVars>>

\* lines 74-79: the clones of the chunk
GatherClones ==
    /\ pc = "loop"
    /\ idx < num_iter
    /\ LET index == Slice(roi_boxes, StartIdx, EndIdx)
       IN  IF \E k \in 1..Len(index) : index[k] >= NumImages
           THEN /\ pc' = "IndexError"
                /\ UNCHANGED per_instance_features
           ELSE /\ per_instance_features' =
                      [k \in 1..Len(index) |-> [img |-> index[k], mask |-> -1]]
                /\ pc' = "gathered"
    /\ UNCHANGED <<caller_boxes, boxes_form, reserve, roi_boxes, entry_boxes, clone_limit,
                   num_iter, idx, output, result, first_call, headVars, sampleVars, postVars>>

\* lines 80-82: written in place, into the caller's tensor when boxes is one
Renumber ==
    /\ pc = "gathered"
    /\ roi_boxes' = AssignSlice(roi_boxes, StartIdx, EndIdx, Arange(EndIdx - StartIdx))
    /\ caller_boxes' = IF boxes_form = "tensor" THEN roi_boxes' ELSE caller_boxes
    /\ pc' = "renumbered"
    /\ UNCHANGED <<boxes_form, reserve, entry_boxes, clone_limit, num_iter, idx,
                   per_instance_features, output, result, first_call, headVars,
                   sampleVars, postVars>>

\* lines 83-91
PoolChunk ==
    /\ pc = "renumbered"
    /\ per_instance_features' = MulMasks(per_instance_features, StartIdx)
    /\ output' = Append(output,
                        RoIAlign(per_instance_features',
                                 Slice(roi_boxes, StartIdx, EndIdx), StartIdx))
    /\ pc' = "pooled"
    /\ UNCHANGED <<caller_boxes, boxes_form, reserve, roi_boxes, entry_boxes, clone_limit,
                   num_iter, idx, result, first_call, headVars, sampleVars, postVars>>

\* lines 92-94, and the next iteration
ReleaseClones ==
    /\ pc = "pooled"
    /\ per_instance_features' = <<>>
    /\ idx' = idx + 1
    /\ pc' = "loop"
    /\ UNCHANGED <<caller_boxes, boxes_form, reserve, roi_boxes, entry_boxes, clone_limit,
                   num_iter, output, result, first_call, headVars, sampleVars, postVars>>

\* lines 96-100: torch.cat raises on an empty list
Finish ==
    /\ pc = "loop"
    /\ idx >= num_iter
    /\ IF output = <<>>
       THEN /\ pc' = "RuntimeError"
            /\ UNCHANGED result
       ELSE LET cat == Flatten(output)
            IN  IF Len(cat) = Len(roi_boxes)
                THEN /\ result' = cat
                     /\ pc' = "returned"
                ELSE /\ pc' = "AssertionError"
                     /\ UNCHANGED result
    /\ UNCHANGED <<caller_boxes, boxes_form, reserve, roi_boxes, entry_boxes, clone_limit,
                   num_iter, idx, per_instance_features, output, first_call, headVars,
                   sampleVars, postVars>>

\* the caller keeps the first result and calls again with the same arguments
\* and another budget
CallAgain ==
    /\ pc = "returned"
    /\ ~first_call.made
    /\ first_call' = [made |-> TRUE, entry |-> entry_boxes, result |-> result,
                      clone_limit |-> clone_limit]
    /\ reserve' \in ReserveMB
    /\ pc' = "call"
    /\ UNCHANGED <<caller_boxes, boxes_form, roi_boxes, entry_boxes, clone_limit, num_iter,
                   idx, per_instance_features, output, result, headVars, sampleVars, postVars>>

NextPool ==
    Call \/ GatherClones \/ Renumber \/ PoolChunk \/ ReleaseClones \/ Finish \/ CallAgain

SpecPool == InitPool /\ [][NextPool]_vars

(***************************************************************************)
(* Scores at inference are exact rationals <<numerator, denominator>> in   *)
(* lowest terms, the denominator positive; <<0, 0>> is the NaN a division  *)
(* by zero gives.                                                          *)
(***************************************************************************)
RECURSIVE Gcd(_, _)
Gcd(a, b) == IF b = 0 THEN a ELSE Gcd(b, a % b)

NaN == <<0, 0>>
Zero == <<0, 1>>
One == <<1, 1>>

IsNaN(a) == a[2] = 0

Frac(n, d) ==
    IF d = 0 THEN NaN
    ELSE LET g == Gcd(n, d) IN <<n \div g, d \div g>>

FAdd(a, b) ==
    IF IsNaN(a) \/ IsNaN(b) THEN NaN
    ELSE LET g == Gcd(a[2], b[2])
         IN  Frac(a[1] * (b[2] \div g) + b[1] * (a[2] \div g), a[2] * (b[2] \div g))

FMul(a, b) ==
    IF IsNaN(a) \/ IsNaN(b) THEN NaN
    ELSE LET g1 == Gcd(a[1], b[2])
             g2 == Gcd(b[1], a[2])
         IN  Frac((a[1] \div g1) * (b[1] \div g2), (a[2] \div g2) * (b[2] \div g1))

FDiv(a, b) ==
    IF IsNaN(a) \/ IsNaN(b) \/ b[1] = 0 THEN NaN
    ELSE FMul(a, <<b[2], b[1]>>)

RECURSIVE FSum(_)
FSum(s) == IF s = <<>> THEN Zero ELSE FAdd(Head(s), FSum(Tail(s)))

(***************************************************************************)
(* sinkhorn_knopp_norm2d (pocket.ops): rows rescaled to sum to 1, then     *)
(* columns, max_iter times; an all-zero row or column is left as it is.    *)
(* A matrix is the sequence of its rows.                                   *)
(***************************************************************************)
max_iter == 2

NumRows(m) == Len(m)
NumCols(m) == IF m = <<>> THEN 0 ELSE Len(m[1])

RowSums(m) == [u \in 1..NumRows(m) |-> FSum(m[u])]
ColSums(m) == [v \in 1..NumCols(m) |-> FSum([u \in 1..NumRows(m) |-> m[u][v]])]

RowNormalise(m) ==
    LET sums == RowSums(m)
    IN  [u \in 1..NumRows(m) |->
            [v \in 1..NumCols(m) |->
                IF sums[u] = Zero THEN m[u][v] ELSE FDiv(m[u][v], sums[u])]]

\* the column step left out
ColNormaliseSkipped(m) == m

ColNormalise(m) ==
    LET sums == ColSums(m)
    IN  [u \in 1..NumRows(m) |->
            [v \in 1..NumCols(m) |->
                IF sums[v] = Zero THEN m[u][v] ELSE FDiv(m[u][v], sums[v])]]

\* one iteration
Sweep(m) == ColNormalise(RowNormalise(m))

RECURSIVE SinkhornIterate(_, _)
SinkhornIterate(m, k) == IF k = 0 THEN m ELSE SinkhornIterate(Sweep(m), k - 1)

sinkhorn_knopp_norm2d(m) == SinkhornIterate(m, max_iter)

(***************************************************************************)
(* sinkhorn_knopp_norm2d called on its own, one rescaling at a time.       *)
(***************************************************************************)
MaxScore == 2   \* entries of the argument are 0..MaxScore

\* shapes (rows, columns) of the argument; the exact row sums of a wider one
\* exceed the integers of the checker after two iterations
Shapes == { <<1, 1>>, <<1, 2>>, <<1, 3>>, <<2, 1>>, <<2, 2>>, <<3, 1>>, <<3, 2>> }

InitSinkhorn ==
    /\ pc = "norm2d_rows"
    /\ \E shape \in Shapes :
          matrix \in [1..shape[1] -> [1..shape[2] -> {Frac(n, 1) : n \in 0..MaxScore}]]
    /\ scaled = matrix
    /\ n_iter = 0
    /\ detections = <<>>
    /\ all_boxes_h = <<>>
    /\ all_boxes_o = <<>>
    /\ all_prior_scores = <<>>
    /\ interaction_scores = <<>>
    /\ img = 0
    /\ dense = <<>>
    /\ normalised = <<>>
    /\ results = None
    /\ training = FALSE
    /\ boxes = <<>>
    /\ labels = <<>>
    /\ scores = <<>>
    /\ targets = None
    /\ paired_idx = <<>>
    /\ boxes_h = None
    /\ boxes_o = None
    /\ hoi_labels = None
    /\ prior_scores = <<>>
    /\ num_box_pairs_per_image = 2
    /\ positive_fraction = <<1, 2>>
    /\ sampled_idx = <<>>
    /\ NoPooling

RescaleRows ==
    /\ pc = "norm2d_rows"
    /\ scaled' = RowNormalise(scaled)
    /\ pc' = "norm2d_cols"
    /\ UNCHANGED <<headVars, sampleVars, poolVars, detections, all_boxes_h, all_boxes_o,
                   all_prior_scores, interaction_scores, img, dense, normalised, results,
                   matrix, n_iter>>

RescaleColumns ==
    /\ pc = "norm2d_cols"
    /\ scaled' = ColNormalise(scaled)
    /\ n_iter' = n_iter + 1
    /\ pc' = IF n_iter' >= max_iter THEN "norm2d_done" ELSE "norm2d_rows"
    /\ UNCHANGED <<headVars, sampleVars, poolVars, detections, all_boxes_h, all_boxes_o,
                   all_prior_scores, interaction_scores, img, dense, normalised, results,
                   matrix>>

NextSinkhorn == RescaleRows \/ RescaleColumns

SpecSinkhorn == InitSinkhorn /\ [][NextSinkhorn]_vars

(***************************************************************************)
(* InteractionHead.forward at inference, lines 374-428, over a batch:      *)
(* filter_detections (82-112), the inference path of                       *)
(* pair_up_boxes_and_assign_to_targets, the classifier (any logits), and   *)
(* postprocess (351-372) with sinkhorn_knopp_normalisation (327-349), one  *)
(* image at a time.                                                        *)
(***************************************************************************)
MaxBatchDet == 4    \* detections of a batch, all images together
BatchSize == 2      \* images of a batch

box_score_thresh == 2       \* 0.2, in tenths
box_nms_thresh == <<1, 2>>

\* detections the detector can hand over: box, label, score (tenths)
PostDetections ==
    << [box |-> <<10, 10, 14, 13>>, label |-> 0, score |-> 2],
       [box |-> <<0, 0, 4, 3>>, label |-> 1, score |-> 6],
       [box |-> BoxC, label |-> 2, score |-> 5],
       [box |-> BoxA, label |-> 1, score |-> 9],
       [box |-> BoxD, label |-> 3, score |-> 4],
       [box |-> BoxB, label |-> 1, score |-> 8],
       [box |-> BoxC, label |-> 0, score |-> 7] >>

\* sigmoid(class_logits) of the pairs of the batch, repeated along the pairs
SigmoidPatterns == { <<One>>, <<Frac(1, 2), One>>, <<One, Frac(1, 3), Frac(1, 2)>> }

\* box_iou(a, b) > num/den
IoUAbove(a, b, t) ==
    LET inter == BoxInter(a, b)
        union == BoxArea(a) + BoxArea(b) - inter
    IN  union # 0 /\ inter * t[2] > t[1] * union

\* the indices by descending score
ByDescendingScore(scs) ==
    CHOOSE s \in [1..Len(scs) -> 0..(Len(scs) - 1)] :
        \A i, j \in 1..Len(scs) :
            i < j => \/ At(scs, s[i]) > At(scs, s[j])
                     \/ At(scs, s[i]) = At(scs, s[j]) /\ s[i] < s[j]

\* torchvision nms on the boxes of one class at a time: a box is dropped when
\* a kept box of its class with a higher score overlaps it by more than the
\* threshold; the kept indices come by descending score
RECURSIVE NmsKeep(_, _, _, _, _)
NmsKeep(bx, lbls, order, k, kept) ==
    IF k > Len(order) THEN kept
    ELSE LET i == order[k]
             suppressed ==
                 \E j \in Range(kept) :
                     /\ At(lbls, j) = At(lbls, i)
                     /\ IoUAbove(At(bx, j), At(bx, i), box_nms_thresh)
         IN  NmsKeep(bx, lbls, order, k + 1, IF suppressed THEN kept ELSE Append(kept, i))

BatchedNms(bx, scs, lbls) == NmsKeep(bx, lbls, ByDescendingScore(scs), 1, <<>>)

\* lines 91-110, one image
FilterDetection(det) ==
    LET keep_idx == NonZero([i \in 1..Len(det.scores) |-> det.scores[i] > box_score_thresh])
        bx == Gather(det.boxes, keep_idx)
        scs == Gather(det.scores, keep_idx)
        lbls == Gather(det.labels, keep_idx)
        nms_idx == BatchedNms(bx, scs, lbls)
    IN  [boxes |-> Gather(bx, nms_idx),
         labels |-> Gather(lbls, nms_idx),
         scores |-> Gather(scs, nms_idx)]

\* lines 253-262 and 301-306, one image at inference
PairUpImage(det) ==
    LET p_idx == PairUpBoxes(det.labels)
    IN  [boxes_h |-> Gather(det.boxes, [p \in 1..Len(p_idx) |-> p_idx[p][1]]),
         boxes_o |-> Gather(det.boxes, [p \in 1..Len(p_idx) |-> p_idx[p][2]]),
         prior_scores |-> MapObjectScoresToInteractionScores(det.scores, det.labels, p_idx)]

RECURSIVE SumLen(_)
SumLen(ts) == IF ts = <<>> THEN 0 ELSE Len(Head(ts)) + SumLen(Tail(ts))

\* lines 353-354: (_cat(prior_scores) * sigmoid(class_logits)).split(num_boxes)
InteractionScores(priors, sigmoid) ==
    [i \in 1..Len(priors) |->
        [p \in 1..Len(priors[i]) |->
            LET g == SumLen(SubSeq(priors, 1, i - 1)) + p - 1
            IN  [c \in 0..(num_classes - 1) |->
                    FMul(Frac(priors[i][p][c], 100), sigmoid[(g % Len(sigmoid)) + 1])]]]

\* rows of boxes in the order of Tensor.unique(dim=0)
BoxLess(a, b) == \E k \in 1..4 : a[k] < b[k] /\ \A j \in 1..(k - 1) : a[j] = b[j]

UniqueRows(t) ==
    CHOOSE s \in [1..Cardinality(Range(t)) -> Range(t)] :
        \A i, j \in 1..Cardinality(Range(t)) : i < j => BoxLess(s[i], s[j])

\* return_inverse: the position in the unique rows of every row
InverseIndex(unique, t) == [p \in 1..Len(t) |-> CHOOSE k \in 1..Len(unique) : unique[k] = t[p]]

\* the pairs written to cell (u, v) of scores_
PairsAtCell(h_intra_idx, o_intra_idx, u, v) ==
    {p \in 1..Len(h_intra_idx) : h_intra_idx[p] = u /\ o_intra_idx[p] = v}

\* line 343: for every cell, in row-major order, the pair whose scores the
\* indexed assignment leaves there (0 for a cell no pair is written to);
\* which of several pairs with the same two boxes that is, is not defined
RECURSIVE Writers(_, _, _, _)
Writers(h_intra_idx, o_intra_idx, num_o, k) ==
    IF k = 0 THEN {<<>>}
    ELSE LET at == PairsAtCell(h_intra_idx, o_intra_idx,
                               ((k - 1) \div num_o) + 1, ((k - 1) % num_o) + 1)
         IN  {Append(w, p) : w \in Writers(h_intra_idx, o_intra_idx, num_o, k - 1),
                             p \in (IF at = {} THEN {0} ELSE at)}

\* lines 336-343: the values scores_ can have
DenseScores(bh, bo, scs) ==
    LET unique_h == UniqueRows(bh)
        unique_o == UniqueRows(bo)
        h_intra_idx == InverseIndex(unique_h, bh)
        o_intra_idx == InverseIndex(unique_o, bo)
        num_o == Len(unique_o)
    IN  { [c \in 0..(num_classes - 1) |->
              [u \in 1..Len(unique_h) |->
                  [v \in 1..num_o |->
                      IF w[(u - 1) * num_o + v] = 0 THEN Zero
                      ELSE scs[w[(u - 1) * num_o + v]][c]]]] :
          w \in Writers(h_intra_idx, o_intra_idx, num_o, Len(unique_h) * num_o) }

\* line 349: scores_[h_intra_idx, o_intra_idx, :]
GatherNormalised(bh, bo, norm) ==
    LET h_intra_idx == InverseIndex(UniqueRows(bh), bh)
        o_intra_idx == InverseIndex(UniqueRows(bo), bo)
    IN  [p \in 1..Len(bh) |->
            [c \in 0..(num_classes - 1) |-> norm[c][h_intra_idx[p]][o_intra_idx[p]]]]

\* the normalised scores taken as the result, in place of the product
ReplaceScores(scs, factors) == factors

\* line 358: scores *= ...
MultiplyScores(scs, factors) ==
    [p \in 1..Len(scs) |-> [c \in 0..(num_classes - 1) |-> FMul(scs[p][c], factors[p][c])]]

\* line 361: s.nonzero().squeeze(1) for every pair
KeepCls(scs) ==
    [p \in 1..Len(scs) |-> NonZero([k \in 1..num_classes |-> scs[p][k - 1] # Zero])]

\* lines 361-370
ImageResult(scs, b_h, b_o) ==
    LET keep_cls == KeepCls(scs)
        keep_box == NonZero([p \in 1..Len(keep_cls) |-> Len(keep_cls[p]) # 0])
    IN  [boxes_h |-> Gather(b_h, keep_box),
         boxes_o |-> Gather(b_o, keep_box),
         labels |-> keep_cls,
         scores |-> [p \in 1..Len(scs) |->
                        [k \in 1..Len(keep_cls[p]) |-> scs[p][keep_cls[p][k]]]]]

\* the detections of the images of a batch: each image takes some of
\* PostDetections, in that order
Slots == 1..(BatchSize * Len(PostDetections))

ImageOfSlot(s) == ((s - 1) \div Len(PostDetections)) + 1

DetectionOfSlot(s) == PostDetections[((s - 1) % Len(PostDetections)) + 1]

\* the ascending choices of at most n slots
RECURSIVE Batches(_)
Batches(n) ==
    IF n = 0 THEN {<<>>}
    ELSE LET shorter == Batches(n - 1)
         IN  shorter \cup
             UNION { {Append(c, s) : s \in {t \in Slots : n = 1 \/ t > c[n - 1]}} :
                     c \in {b \in shorter : Len(b) = n - 1} }

DetectionsOfImage(c, i) ==
    LET OfImage(s) == ImageOfSlot(s) = i
        mine == SelectSeq(c, OfImage)
    IN  [boxes |-> [k \in 1..Len(mine) |-> DetectionOfSlot(mine[k]).box],
         labels |-> [k \in 1..Len(mine) |-> DetectionOfSlot(mine[k]).label],
         scores |-> [k \in 1..Len(mine) |-> DetectionOfSlot(mine[k]).score]]

InitPost ==
    /\ pc = "filter_detections"
    /\ \E c \in Batches(MaxBatchDet) : detections = [i \in 1..BatchSize |-> DetectionsOfImage(c, i)]
    /\ all_boxes_h = <<>>
    /\ all_boxes_o = <<>>
    /\ all_prior_scores = <<>>
    /\ interaction_scores = <<>>
    /\ img = 0
    /\ dense = <<>>
    /\ normalised = <<>>
    /\ results = None
    /\ matrix = <<>>
    /\ scaled = <<>>
    /\ n_iter = 0
    /\ training = FALSE
    /\ boxes = <<>>
    /\ labels = <<>>
    /\ scores = <<>>
    /\ targets = None
    /\ paired_idx = <<>>
    /\ boxes_h = None
    /\ boxes_o = None
    /\ hoi_labels = None
    /\ prior_scores = <<>>
    /\ num_box_pairs_per_image = 2
    /\ positive_fraction = <<1, 2>>
    /\ sampled_idx = <<>>
    /\ NoPooling

\* line 400
FilterDetections ==
    /\ pc = "filter_detections"
    /\ detections' = [i \in 1..Len(detections) |-> FilterDetection(detections[i])]
    /\ pc' = "pair_up"
    /\ UNCHANGED <<headVars, sampleVars, poolVars, all_boxes_h, all_boxes_o,
                   all_prior_scores, interaction_scores, img, dense, normalised, results,
                   matrix, scaled, n_iter>>

\* lines 406-407
PairUpBatch ==
    /\ pc = "pair_up"
    /\ all_boxes_h' = [i \in 1..Len(detections) |-> PairUpImage(detections[i]).boxes_h]
    /\ all_boxes_o' = [i \in 1..Len(detections) |-> PairUpImage(detections[i]).boxes_o]
    /\ all_prior_scores' =
          [i \in 1..Len(detections) |-> PairUpImage(detections[i]).prior_scores]
    /\ pc' = "box_pairs"
    /\ UNCHANGED <<headVars, sampleVars, poolVars, detections, interaction_scores, img,
                   dense, normalised, results, matrix, scaled, n_iter>>

\* lines 411-412: no box pair in the whole batch
ReturnNone ==
    /\ pc = "box_pairs"
    /\ SumLen(all_boxes_h) = 0
    /\ results' = None
    /\ pc' = "returned"
    /\ UNCHANGED <<headVars, sampleVars, poolVars, detections, all_boxes_h, all_boxes_o,
                   all_prior_scores, interaction_scores, img, dense, normalised, matrix,
                   scaled, n_iter>>

\* lines 414-417 and 353-356: the classifier may give any logits
Classify ==
    /\ pc = "box_pairs"
    /\ SumLen(all_boxes_h) # 0
    /\ \E sigmoid \in SigmoidPatterns :
          interaction_scores' = InteractionScores(all_prior_scores, sigmoid)
    /\ results' = Tensor(<<>>)
    /\ img' = 0
    /\ pc' = "postprocess"
    /\ UNCHANGED <<headVars, sampleVars, poolVars, detections, all_boxes_h, all_boxes_o,
                   all_prior_scores, dense, normalised, matrix, scaled, n_iter>>

\* lines 336-347 for the image at hand.  Tensor.unique(dim=0) of an image
\* without pairs gives an empty tensor or raises, by the version of torch.
Normalise ==
    /\ pc = "postprocess"
    /\ img < Len(all_boxes_h)
    /\ \/ /\ dense' \in DenseScores(all_boxes_h[img + 1], all_boxes_o[img + 1],
                                    interaction_scores[img + 1])
          /\ normalised' = [c \in 0..(num_classes - 1) |-> sinkhorn_knopp_norm2d(dense'[c])]
          /\ pc' = "normalised"
       \/ /\ Len(all_boxes_h[img + 1]) = 0
          /\ pc' = "RuntimeError"
          /\ UNCHANGED <<dense, normalised>>
    /\ UNCHANGED <<headVars, sampleVars, poolVars, detections, all_boxes_h, all_boxes_o,
                   all_prior_scores, interaction_scores, img, results, matrix, scaled,
                   n_iter>>

\* lines 349 and 358-370: the scores are multiplied in place; keep_cls[0]
\* of an image without pairs raises
FilterScores ==
    /\ pc = "normalised"
    /\ LET b_h == all_boxes_h[img + 1]
           b_o == all_boxes_o[img + 1]
           scs == MultiplyScores(interaction_scores[img + 1],
                                 GatherNormalised(b_h, b_o, normalised))
       IN  /\ interaction_scores' = [interaction_scores EXCEPT ![img + 1] = scs]
           /\ IF Len(scs) = 0
              THEN /\ pc' = "IndexError"
                   /\ UNCHANGED <<results, img>>
              ELSE /\ results' = Tensor(Append(results.t, ImageResult(scs, b_h, b_o)))
                   /\ img' = img + 1
                   /\ pc' = "postprocess"
    /\ UNCHANGED <<headVars, sampleVars, poolVars, detections, all_boxes_h, all_boxes_o,
                   all_prior_scores, dense, normalised, matrix, scaled, n_iter>>

\* line 372 and 428
ReturnResults ==
    /\ pc = "postprocess"
    /\ img = Len(all_boxes_h)
    /\ pc' = "returned"
    /\ UNCHANGED <<headVars, sampleVars, poolVars, postVars>>

NextPost ==
    \/ FilterDetections
    \/ PairUpBatch
    \/ ReturnNone
    \/ Classify
    \/ Normalise
    \/ FilterScores
    \/ ReturnResults

SpecPost == InitPost /\ [][NextPost]_vars

(***************************************************************************)
(* Properties of pair construction.                                        *)
(***************************************************************************)
NumDetections == Len(labels)

HumanDetections == {i \in 0..(NumDetections - 1) : At(labels, i) = human_idx}

LexLess(p, q) == p[1] < q[1] \/ (p[1] = q[1] /\ p[2] < q[2])

\* C1: in inference (no ground-truth injection) the pairs of an image with N
\* detections, H of them human, are exactly the (h, o) with h human, o any
\* detection and h # o: H * (N - 1) pairs, ascending in h and then in o.
C1_PairsRowMajor ==
    (~training /\ pc \in {"map_scores", "done"}) =>
        /\ Len(paired_idx) = Cardinality(HumanDetections) * (NumDetections - 1)
        /\ Range(paired_idx) =
              {<<h, o>> : h \in HumanDetections, o \in 0..(NumDetections - 1)}
                  \ {<<h, h>> : h \in HumanDetections}
        /\ \A i, j \in 1..Len(paired_idx) :
              i < j => LexLess(paired_idx[i], paired_idx[j])

C1_Witness ==
    /\ ~training
    /\ pc = "done"
    /\ labels = <<0, 1, 1>>
    /\ paired_idx = << <<1, 0>>, <<1, 2>>, <<2, 0>>, <<2, 1>> >>

\* C2: every pair handed to label assignment and to prior-score mapping has
\* h # o and a human label at h in the label array it indexes.
C2_PairsIndexHumans ==
    pc \in {"assign", "subsample", "map_scores"} =>
        \A p \in 1..Len(paired_idx) :
            /\ paired_idx[p][1] # paired_idx[p][2]
            /\ At(labels, paired_idx[p][1]) = human_idx

\* C3: append_ground_truth_box_pairs with G ground-truth pairs and N
\* detections returns arrays of length N + 2G, the pairs (i, G + i) first,
\* the ground-truth human boxes (human class, score 1) at 0..G-1 and the
\* ground-truth object boxes (their object class, score 1) at G..2G-1.
C3_GroundTruthInjected ==
    [][pc = "append_gt" =>
        LET G == Len(targets.boxes_h)
            N == Len(boxes)
        IN  /\ Len(boxes') = N + 2 * G
            /\ Len(labels') = N + 2 * G
            /\ Len(scores') = N + 2 * G
            /\ Len(paired_idx') >= G
            /\ \A i \in 0..(G - 1) :
                /\ At(paired_idx', i) = <<i, G + i>>
                /\ At(boxes', i) = At(targets.boxes_h, i)
                /\ At(labels', i) = human_idx
                /\ At(scores', i) = 10
                /\ At(boxes', G + i) = At(targets.boxes_o, i)
                /\ At(labels', G + i) = At(targets.object, i)
                /\ At(scores', G + i) = 10]_vars

C3_Witness ==
    /\ pc = "assign"
    /\ Len(targets.boxes_h) = 2
    /\ Len(boxes) = 6
    /\ At(paired_idx, 1) = <<1, 3>>

\* C4: the prior score of pair (h, o) for class c is scores[h] * scores[o]
\* when c is one of the classes the label of o maps to, and 0 otherwise.
C4_PriorScores ==
    pc = "done" =>
        /\ Len(prior_scores) = Len(paired_idx)
        /\ \A p \in 1..Len(paired_idx) : \A c \in 0..(num_classes - 1) :
            LET h == paired_idx[p][1]
                o == paired_idx[p][2]
            IN  prior_scores[p][c] =
                    IF c \in Range(At(object_class_to_target_class, At(labels, o)))
                    THEN At(scores, h) * At(scores, o)
                    ELSE 0

\* human@0 (0.9), cup@1 (0.8), chair@2 (0.7): 0.72 for the cup's class,
\* 0.63 for the chair's two classes
C4_Witness ==
    /\ ~training
    /\ pc = "done"
    /\ labels = <<1, 0, 2>>
    /\ scores = <<9, 8, 7>>
    /\ paired_idx = << <<0, 1>>, <<0, 2>> >>
    /\ prior_scores = << (0 :> 72 @@ 1 :> 0 @@ 2 :> 0), (0 :> 63 @@ 1 :> 0 @@ 2 :> 63) >>

(***************************************************************************)
(* Properties of subsample.                                                *)
(***************************************************************************)
PositiveRows == {i \in 0..(Len(hoi_labels.t) - 1) : RowSum(At(hoi_labels.t, i)) # 0}

NegativeRows == {i \in 0..(Len(hoi_labels.t) - 1) : RowSum(At(hoi_labels.t, i)) = 0}

SampledPositives == {k \in 1..Len(sampled_idx) : sampled_idx[k] \in PositiveRows}

SampledNegatives == {k \in 1..Len(sampled_idx) : sampled_idx[k] \in NegativeRows}

NoDuplicates == \A i, j \in 1..Len(sampled_idx) : i # j => sampled_idx[i] # sampled_idx[j]

\* P >= num_box_pairs_per_image * positive_fraction
EnoughPositives ==
    Cardinality(PositiveRows) * positive_fraction[2]
        >= num_box_pairs_per_image * positive_fraction[1]

\* C5 as stated: with P >= n * f the result has exactly n indices, of which
\* round(n * f) are positive rows.
C5_ExactlyNWithRoundedPositives ==
    (pc = "subsample_done" /\ EnoughPositives) =>
        /\ Len(sampled_idx) = num_box_pairs_per_image
        /\ Cardinality(SampledPositives) =
              IntOfProductRounded(num_box_pairs_per_image, positive_fraction)

\* C5 amended: with P >= n * f the result has exactly int(n * f) positive rows
\* (the product truncated) and min(Q, n - int(n * f)) negative rows, so
\* exactly n indices whenever Q >= n - int(n * f).
C5_TruncatedPositivesAvailableNegatives ==
    (pc = "subsample_done" /\ EnoughPositives) =>
        LET n == num_box_pairs_per_image
            num_pos == (n * positive_fraction[1]) \div positive_fraction[2]
        IN  /\ Cardinality(SampledPositives) = num_pos
            /\ Cardinality(SampledNegatives) = Min(Cardinality(NegativeRows), n - num_pos)
            /\ Len(sampled_idx) = num_pos + Cardinality(SampledNegatives)
            /\ Cardinality(NegativeRows) >= n - num_pos => Len(sampled_idx) = n

\* n = 3, f = 1/2, P = 3, Q = 2: one positive (int(1.5)) and two negatives
C5_Witness ==
    /\ pc = "subsample_done"
    /\ EnoughPositives
    /\ num_box_pairs_per_image = 3
    /\ positive_fraction = <<1, 2>>
    /\ Cardinality(PositiveRows) = 3
    /\ Cardinality(NegativeRows) = 2
    /\ Len(sampled_idx) = 3
    /\ Cardinality(SampledPositives) = 1

\* C6 as stated: with P < n * f the result holds all P positive rows and
\* exactly floor(P * (1 - f) / f) negative rows, none twice.
C6_AllPositivesExactNegatives ==
    (pc = "subsample_done" /\ ~EnoughPositives) =>
        /\ PositiveRows \subseteq Range(sampled_idx)
        /\ Cardinality(SampledNegatives) =
              (Cardinality(PositiveRows) * (positive_fraction[2] - positive_fraction[1]))
                  \div positive_fraction[1]
        /\ NoDuplicates

\* C6 amended: with P < n * f the result holds all P positive rows and
\* min(Q, floor(P * (1 - f) / f)) negative rows, none twice.
C6_AllPositivesAvailableNegatives ==
    (pc = "subsample_done" /\ ~EnoughPositives) =>
        /\ PositiveRows \subseteq Range(sampled_idx)
        /\ Cardinality(SampledPositives) = Cardinality(PositiveRows)
        /\ Cardinality(SampledNegatives) =
              Min(Cardinality(NegativeRows),
                  (Cardinality(PositiveRows) * (positive_fraction[2] - positive_fraction[1]))
                      \div positive_fraction[1])
        /\ NoDuplicates

\* n = 4, f = 1/2, P = 1, Q = 3: the positive and int(1 * (1/2) / (1/2)) = 1
\* of the three negatives
C6_Witness ==
    /\ pc = "subsample_done"
    /\ ~EnoughPositives
    /\ num_box_pairs_per_image = 4
    /\ positive_fraction = <<1, 2>>
    /\ Cardinality(PositiveRows) = 1
    /\ Cardinality(NegativeRows) = 3
    /\ Len(sampled_idx) = 2
    /\ Cardinality(SampledNegatives) = 1

(***************************************************************************)
(* Properties of masked_roi_align.                                         *)
(***************************************************************************)
FloorDiv(a, b) == IF a >= 0 THEN a \div b ELSE -((-a + b - 1) \div b)

\* floor((limit - reserve - output bytes - mask bytes) / (C * H * W * 4))
CloneCapacity(res, num_boxes) ==
    FloorDiv(CloneBytes(res, num_boxes), FeatC * FeatH * FeatW * 4)

InLoop == pc \in {"loop", "gathered", "renumbered", "pooled"}

\* C7: no chunk is larger than the clone capacity, at most that many clones
\* are live at any point of the loop, and none is live when the next chunk's
\* clones are about to be created.
C7_ClonesWithinCapacity ==
    InLoop =>
        LET capacity == CloneCapacity(reserve, Len(roi_boxes))
        IN  /\ pc = "loop" => per_instance_features = <<>>
            /\ pc # "loop" =>
                  /\ Len(per_instance_features) = EndIdx - StartIdx
                  /\ Len(per_instance_features) >= 1
                  /\ Len(per_instance_features) <= capacity
            /\ \A k \in 1..Len(output) : Len(output[k]) <= capacity

\* the second chunk of three boxes under a capacity of two clones
C7_Witness ==
    /\ pc = "pooled"
    /\ Len(roi_boxes) = 3
    /\ CloneCapacity(reserve, 3) = 2
    /\ idx = 1
    /\ Len(per_instance_features) = 1
    /\ Len(output[1]) = 2

C9_SameOutputUnderAnyBudget ==
    (first_call.made /\ pc = "returned" /\ entry_boxes = first_call.entry) =>
        result = first_call.result

\* three boxes pooled in one chunk by the first call, in two by the second
C9_Witness ==
    /\ first_call.made
    /\ pc = "returned"
    /\ entry_boxes = first_call.entry
    /\ Len(result) = 3
    /\ first_call.clone_limit >= 3
    /\ clone_limit = 2
    /\ Len(output) = 2

\* C10: under a feasible budget the call returns one row per box, in input
\* order, row i pooled at box i from a clone of the feature map of the image
\* box i belongs to, multiplied by mask i; the chunks are consecutive
\* intervals of the boxes; with no box the result is empty.
C10_OneRowPerBoxInOrder ==
    /\ pc = "returned" =>
          /\ Len(result) = Len(entry_boxes)
          /\ \A i \in 1..Len(result) :
                result[i] = [img |-> entry_boxes[i], mask |-> i - 1, box |-> i - 1]
    /\ \A k \in 1..Len(output) : \A j \in 1..Len(output[k]) :
          output[k][j].box = (k - 1) * clone_limit + j - 1
    /\ (/\ pc # "call"
        /\ Len(entry_boxes) >= 1
        /\ CloneCapacity(reserve, Len(entry_boxes)) >= 1
        /\ \A i \in 1..Len(entry_boxes) : entry_boxes[i] < NumImages)
          => pc \notin ErrorStates

C10_Witness ==
    /\ pc = "returned"
    /\ ~first_call.made
    /\ entry_boxes = <<1, 0, 1>>
    /\ Len(output) = 2
    /\ Len(result) = 3

(***************************************************************************)
(* Properties of ground-truth injection and label assignment.              *)
(***************************************************************************)
NumGt == Len(targets.boxes_h)

\* C15: in training the pairs that follow the G diagonal pairs are exactly
\* the (h, o), h # o, with h a human-labelled index and o any index of the
\* concatenated array of N + 2G detections.
C15_PairsOverConcatenatedArray ==
    (training /\ pc = "assign") =>
        /\ Len(paired_idx) >= NumGt
        /\ Range(SubSeq(paired_idx, NumGt + 1, Len(paired_idx))) =
              {<<h, o>> : h \in HumanDetections, o \in 0..(NumDetections - 1)}
                  \ {<<h, h>> : h \in HumanDetections}

\* the unit cells a box covers
Cells(b) == {<<x, y>> : x \in b[1]..(b[3] - 1), y \in b[2]..(b[4] - 1)}

\* IoU(a, b) >= fg_iou_thresh, the IoU being the share of the cells covered
\* by either box that both cover
OverlapsEnough(a, b) ==
    /\ Cells(a) \cup Cells(b) # {}
    /\ Cardinality(Cells(a) \cap Cells(b)) * fg_iou_thresh[2]
          >= fg_iou_thresh[1] * Cardinality(Cells(a) \cup Cells(b))

\* C16: after label assignment labels[p, k] = 1 exactly when some ground-truth
\* pair g of class k has min(IoU(boxes_h[p], gt_h[g]), IoU(boxes_o[p], gt_o[g]))
\* >= fg_iou_thresh, and 0 otherwise; a candidate matching ground-truth pairs
\* of several classes has every one of their bits set.
C16_LabelsIffMatch ==
    pc = "subsample" =>
        /\ Len(hoi_labels.t) = Len(paired_idx)
        /\ \A p \in 1..Len(paired_idx) : \A k \in 0..(num_classes - 1) :
              /\ hoi_labels.t[p][k] \in {0, 1}
              /\ hoi_labels.t[p][k] = 1 <=>
                    \E g \in 1..NumGt :
                        /\ targets.hoi[g] = k
                        /\ OverlapsEnough(boxes_h.t[p], targets.boxes_h[g])
                        /\ OverlapsEnough(boxes_o.t[p], targets.boxes_o[g])

\* a candidate with the bits of two classes set next to a candidate with none
C16_Witness ==
    /\ pc = "subsample"
    /\ \E p \in 1..Len(paired_idx) :
          /\ hoi_labels.t[p][0] = 1
          /\ hoi_labels.t[p][2] = 1
    /\ \E p \in 1..Len(paired_idx) : RowSum(hoi_labels.t[p]) = 0

\* C17: before subsampling, candidate g (the diagonal pair) carries the boxes
\* of ground-truth pair g and is labelled positive for class hoi[g], for every
\* g; so an image with G >= 1 has a positive pair.
C17_DiagonalPairsPositive ==
    pc = "subsample" =>
        /\ Len(paired_idx) >= NumGt
        /\ \A g \in 1..NumGt :
              /\ boxes_h.t[g] = targets.boxes_h[g]
              /\ boxes_o.t[g] = targets.boxes_o[g]
              /\ hoi_labels.t[g][targets.hoi[g]] = 1
        /\ NumGt >= 1 => \E p \in 1..Len(paired_idx) : RowSum(hoi_labels.t[p]) >= 1

\* two annotated pairs and no detection at all
C17_Witness ==
    /\ pc = "subsample"
    /\ NumGt = 2
    /\ Len(paired_idx) = 2
    /\ hoi_labels.t[2][targets.hoi[2]] = 1

(***************************************************************************)
(* Purity of masked_roi_align.                                             *)
(***************************************************************************)
\* C18: a call leaves the caller's boxes as it received them (the image-index
\* column of a [K, 5] tensor included), so a second call with the same boxes
\* tensor returns what the first returned.
C18_CallerBoxesUnchanged ==
    pc = "returned" =>
        /\ caller_boxes = entry_boxes
        /\ first_call.made => result = first_call.result

(***************************************************************************)
(* Consistency of the rows returned for an image in training.              *)
(***************************************************************************)
PriorOfPair(h, o) ==
    [c \in 0..(num_classes - 1) |->
        IF c \in Range(At(object_class_to_target_class, At(labels, o)))
        THEN At(scores, h) * At(scores, o)
        ELSE 0]

\* C19: in training the rows returned for an image have one length M, and
\* row j of boxes_h, boxes_o and labels is the box pair and the label row of
\* candidate sampled[j], row j of prior_scores the prior of that candidate's
\* scores and object label.
C19_RowsDescribeSampledPairs ==
    /\ [][pc = "subsample" =>
            /\ Len(paired_idx') = Len(sampled_idx')
            /\ \A j \in 1..Len(sampled_idx') :
                  LET pair == At(paired_idx, sampled_idx'[j])
                  IN  /\ paired_idx'[j] = pair
                      /\ boxes_h'.t[j] = At(boxes, pair[1])
                      /\ boxes_o'.t[j] = At(boxes, pair[2])
                      /\ hoi_labels'.t[j] = At(hoi_labels.t, sampled_idx'[j])]_vars
    /\ [](training /\ pc = "done" =>
            /\ Len(boxes_h.t) = Len(paired_idx)
            /\ Len(boxes_o.t) = Len(paired_idx)
            /\ Len(hoi_labels.t) = Len(paired_idx)
            /\ Len(prior_scores) = Len(paired_idx)
            /\ \A j \in 1..Len(paired_idx) :
                  /\ boxes_h.t[j] = At(boxes, paired_idx[j][1])
                  /\ boxes_o.t[j] = At(boxes, paired_idx[j][2])
                  /\ prior_scores[j] = PriorOfPair(paired_idx[j][1], paired_idx[j][2]))

\* a positive and a negative candidate sampled out of four, not the first two
C19_Witness ==
    /\ training
    /\ pc = "done"
    /\ Len(sampled_idx) = 2
    /\ sampled_idx[1] = 1
    /\ sampled_idx[2] = 3
    /\ RowSum(hoi_labels.t[1]) >= 1
    /\ RowSum(hoi_labels.t[2]) = 0
    /\ \E c \in 0..(num_classes - 1) : prior_scores[2][c] # 0

(***************************************************************************)
(* Bounds on the result of subsample.                                      *)
(***************************************************************************)
\* C20: the result of subsample has at most num_box_pairs_per_image indices,
\* each a row index of the label matrix, none twice, and is empty when the
\* matrix has no positive row.
C20_SampleWithinBounds ==
    pc = "subsample_done" =>
        /\ Len(sampled_idx) <= num_box_pairs_per_image
        /\ \A k \in 1..Len(sampled_idx) : sampled_idx[k] \in 0..(Len(hoi_labels.t) - 1)
        /\ NoDuplicates
        /\ PositiveRows = {} => sampled_idx = <<>>

\* three negative rows and no positive one: nothing is sampled
C20_Witness ==
    /\ pc = "subsample_done"
    /\ PositiveRows = {}
    /\ Cardinality(NegativeRows) = 3
    /\ sampled_idx = <<>>

(***************************************************************************)
(* Properties of sinkhorn_knopp_norm2d.                                    *)
(***************************************************************************)
StrictlyPositive(m) ==
    \A u \in 1..NumRows(m) : \A v \in 1..NumCols(m) : m[u][v][1] > 0

\* |a - 1| <= 1e-4
WithinToleranceOfOne(a) ==
    /\ ~IsNaN(a)
    /\ (IF a[1] >= a[2] THEN a[1] - a[2] ELSE a[2] - a[1]) <= a[2] \div 10000

\* a further iteration leaves the matrix as it is, and so does any number
Converged == Sweep(scaled) = scaled

\* C13 as stated: for a strictly positive argument every row sum and every
\* column sum of the result is within 1e-4 of 1; taken where the iteration
\* has converged, so that the number of iterations run makes no difference.
C13_RowsAndColumnsSumToOne ==
    (pc = "norm2d_done" /\ StrictlyPositive(matrix) /\ Converged) =>
        /\ \A u \in 1..NumRows(scaled) : WithinToleranceOfOne(RowSums(scaled)[u])
        /\ \A v \in 1..NumCols(scaled) : WithinToleranceOfOne(ColSums(scaled)[v])

\* the sum of all entries, which is also the sum of the row sums
TotalOfEntries(m) == FSum(ColSums(m))

\* C13 amended: for a strictly positive argument of U rows and V columns
\* every column sum of the result is 1, so that its entries, and with them
\* its U row sums, add up to V.
C13_ColumnsSumToOne ==
    (pc = "norm2d_done" /\ StrictlyPositive(matrix)) =>
        /\ NumRows(scaled) = NumRows(matrix)
        /\ NumCols(scaled) = NumCols(matrix)
        /\ \A v \in 1..NumCols(scaled) : ColSums(scaled)[v] = One
        /\ TotalOfEntries(scaled) = Frac(NumCols(matrix), 1)

\* one human and two objects: both entries become 1 and the row sums to 2
C13_Witness ==
    /\ pc = "norm2d_done"
    /\ matrix = << <<One, Frac(2, 1)>> >>
    /\ scaled = << <<One, One>> >>
    /\ RowSums(scaled)[1] = Frac(2, 1)


(***************************************************************************)
(* Properties of the inference results.                                    *)
(***************************************************************************)
\* the pairs of image i with a nonzero score of some class, scores being
\* those after the multiplication of line 358
RetainedPairs(i) ==
    NonZero([p \in 1..Len(interaction_scores[i]) |->
                \E c \in 0..(num_classes - 1) : interaction_scores[i][p][c] # Zero])

\* C11: in the result of an image, boxes_h, boxes_o, labels and scores have
\* one entry for each pair that keeps a nonzero score of some class after
\* the normalisation, in the order of the pairs, and none for any other
\* pair: entry j holds the two boxes of the j-th such pair, its classes of
\* nonzero score and those scores.
C11_ResultFieldsAligned ==
    results # None =>
        \A i \in 1..Len(results.t) :
            LET r == results.t[i]
                kept == RetainedPairs(i)
            IN  /\ Len(r.boxes_h) = Len(kept)
                /\ Len(r.boxes_o) = Len(kept)
                /\ Len(r.labels) = Len(kept)
                /\ Len(r.scores) = Len(kept)
                /\ \A j \in 1..Len(kept) :
                      LET row == At(interaction_scores[i], kept[j])
                      IN  /\ r.boxes_h[j] = At(all_boxes_h[i], kept[j])
                          /\ r.boxes_o[j] = At(all_boxes_o[i], kept[j])
                          /\ Range(r.labels[j]) =
                                {c \in 0..(num_classes - 1) : row[c] # Zero}
                          /\ Len(r.scores[j]) = Len(r.labels[j])
                          /\ \A k \in 1..Len(r.labels[j]) :
                                r.scores[j][k] = row[r.labels[j][k]]

\* C12: forward at inference raises nothing, and when it has returned, an
\* image without candidate pairs has an empty result or none, and every
\* image with candidate pairs has its result, at its place in the batch.
C12_ImageWithoutPairsTolerated ==
    /\ pc \notin {"IndexError", "RuntimeError"}
    /\ pc = "returned" =>
          \A i \in 1..Len(all_boxes_h) :
              IF Len(all_boxes_h[i]) = 0
              THEN results # None /\ Len(results.t) >= i => Len(results.t[i].boxes_h) = 0
              ELSE /\ results # None
                   /\ Len(results.t) = Len(all_boxes_h)
                   /\ results.t[i] =
                         ImageResult(interaction_scores[i], all_boxes_h[i], all_boxes_o[i])

\* the scores of class c of the pairs of the image at hand with human box
\* unique_h[u], and with object box unique_o[v]
ScoresOfHuman(c, u) ==
    LET b_h == all_boxes_h[img + 1]
    IN  {interaction_scores[img + 1][p][c] :
            p \in {q \in 1..Len(b_h) : b_h[q] = UniqueRows(b_h)[u]}}

ScoresOfObject(c, v) ==
    LET b_o == all_boxes_o[img + 1]
    IN  {interaction_scores[img + 1][p][c] :
            p \in {q \in 1..Len(b_o) : b_o[q] = UniqueRows(b_o)[v]}}

\* C14: when the scores of an image have been normalised, for every class
\* the row of a human box and the column of an object box whose pairs all
\* have score zero are zero in the normalised matrix, every normalised
\* entry is a number (nothing was divided by zero), and the multiplication
\* that follows leaves every zero score of a pair and class at zero.
C14_ZeroStaysZero ==
    /\ [](pc = "normalised" =>
            \A c \in 0..(num_classes - 1) :
                /\ \A u \in 1..NumRows(normalised[c]) :
                      /\ ScoresOfHuman(c, u) = {Zero} =>
                            \A v \in 1..NumCols(normalised[c]) : normalised[c][u][v] = Zero
                      /\ \A v \in 1..NumCols(normalised[c]) : ~IsNaN(normalised[c][u][v])
                /\ \A v \in 1..NumCols(normalised[c]) :
                      ScoresOfObject(c, v) = {Zero} =>
                          \A u \in 1..NumRows(normalised[c]) : normalised[c][u][v] = Zero)
    /\ [][pc = "normalised" =>
            \A p \in 1..Len(interaction_scores[img + 1]) :
                \A c \in 0..(num_classes - 1) :
                    interaction_scores[img + 1][p][c] = Zero =>
                        interaction_scores'[img + 1][p][c] = Zero]_vars

\* the first image has been normalised and multiplied: for some class the
\* column of an object box was zero beside a nonzero column, and a pair of
\* the image keeps a zero score beside a nonzero one
C14_Witness ==
    /\ pc = "postprocess"
    /\ img = 1
    /\ \E c \in 0..(num_classes - 1) :
          /\ \E v \in 1..NumCols(dense[c]) :
                /\ \A u \in 1..NumRows(dense[c]) : dense[c][u][v] = Zero
                /\ \A u \in 1..NumRows(dense[c]) : normalised[c][u][v] = Zero
          /\ \E u \in 1..NumRows(dense[c]) : \E v \in 1..NumCols(dense[c]) :
                dense[c][u][v] # Zero /\ normalised[c][u][v] # Zero
          /\ \E p, q \in 1..Len(interaction_scores[1]) :
                interaction_scores[1][p][c] = Zero /\ interaction_scores[1][q][c] # Zero

====
